---- MODULE Spec2Model ----
(***************************************************************************)
(* Model of the call-matching engine of src/server.js: the agents          *)
(* registry, the waiting queue, the pairing table and the socket.io event  *)
(* handlers that mutate them.  Every handler runs to completion, so each   *)
(* handler is one action.  The agent record is reduced to its busy flag    *)
(* (the display name is never read by the matching logic), and the webrtc  *)
(* relay handlers, which touch no state, are left out.                     *)
(***************************************************************************)
EXTENDS Integers, Sequences, FiniteSets, TLC

\* Number of connections that are ever opened (socket ids are never reused).
NumConns == 3

\* Number of client events (everything but the opening of a connection) that
\* are handled in one run.
MaxEvents == 5

\* Socket ids of the connections.
Ids == 1..NumConns

\* A falsy identifier a client may put in a payload (the empty string).
Empty == 0

\* The value of a missing property (JavaScript undefined).
None == -1

\* Everything that can occur as a property key or queue element.
Keys == Ids \cup {Empty}

VARIABLES
  conn,          \* conn[c]: "new" (not yet connected), "live" or "gone"
  agents,        \* registry in Object.keys order: sequence of [id, busy]
  waitingQueue,  \* sequence of identifiers
  pairings,      \* pairings[k]: partner of k, None when k is not a key
  out,           \* notifications emitted by the last handled event, in order
  last,          \* the last handled event: [ev, from, arg]
  handled,       \* number of client events handled so far
  everPaired,    \* history: the connection ids that have been a key of pairings
  prevQueue      \* history: waitingQueue as it was before the last event

vars == <<conn, agents, waitingQueue, pairings, out, last, handled, everPaired, prevQueue>>

----------------------------------------------------------------------------
\* JavaScript helpers

\* Truthiness of an identifier-valued expression.
Truthy(v) == v # None /\ v # Empty

\* Array.prototype.includes
Includes(q, x) == \E i \in 1..Len(q) : q[i] = x

\* Array.prototype.indexOf, 0-based, -1 when absent.
IndexOf(q, x) ==
  IF Includes(q, x)
    THEN (CHOOSE i \in 1..Len(q) : q[i] = x /\ \A j \in 1..(i-1) : q[j] # x) - 1
    ELSE -1

\* A seeded fault of Splice1: everything from index i on is removed.
Splice1ToEnd(q, i) == SubSeq(q, 1, i)

\* waitingQueue.splice(i, 1) with a 0-based index i.
Splice1(q, i) == SubSeq(q, 1, i) \o SubSeq(q, i + 2, Len(q))

\* A seeded fault of Push: the element is put at the head of the queue.
PushFront(q, x) == <<x>> \o q

\* waitingQueue.push(x)
Push(q, x) == Append(q, x)

\* delete obj[k]
Delete(p, k) == IF k \in DOMAIN p THEN [p EXCEPT ![k] = None] ELSE p

\* obj[k] = v
Put(p, k, v) == [p EXCEPT ![k] = v]

\* obj[k], undefined for a key that was never set
Get(p, k) == IF k \in DOMAIN p THEN p[k] ELSE None

\* agents[id] is defined
IsAgent(ag, id) == \E i \in 1..Len(ag) : ag[i].id = id

\* agents[id].busy of a registered agent
BusyOf(ag, id) == LET i == CHOOSE j \in 1..Len(ag) : ag[j].id = id IN ag[i].busy

\* agents[id].busy = b for a registered agent
SetBusy(ag, id, b) ==
  [i \in 1..Len(ag) |-> IF ag[i].id = id THEN [id |-> id, busy |-> b] ELSE ag[i]]

\* A seeded fault of ClearBusyIfAgent: the flag is left as it is.
ClearBusyIfAgentNoop(ag, id) == ag

\* if (agents[id]) agents[id].busy = false
ClearBusyIfAgent(ag, id) == IF IsAgent(ag, id) THEN SetBusy(ag, id, FALSE) ELSE ag

\* A seeded fault of RegisterAgent: an existing record keeps its busy flag.
RegisterAgentKeep(ag, id) ==
  IF IsAgent(ag, id) THEN ag ELSE Append(ag, [id |-> id, busy |-> FALSE])

\* agents[id] = { name, busy: false }: an existing key keeps its place in
\* the key order, a new key goes last.
RegisterAgent(ag, id) ==
  IF IsAgent(ag, id) THEN SetBusy(ag, id, FALSE)
  ELSE Append(ag, [id |-> id, busy |-> FALSE])

\* delete agents[id]
DeleteAgent(ag, id) == SelectSeq(ag, LAMBDA r : r.id # id)

\* A seeded fault of findFreeAgent: the busy flag is not looked at.
findFreeAgentAny(ag) == IF Len(ag) > 0 THEN ag[1].id ELSE None

\* A seeded fault of findFreeAgent: only the first key is looked at.
findFreeAgentFirstOnly(ag) ==
  IF Len(ag) > 0 /\ ag[1].busy = FALSE THEN ag[1].id ELSE None

\* findFreeAgent(): first key, in key order, whose record has busy === false;
\* None (undefined) when there is none.
findFreeAgent(ag) ==
  IF \E i \in 1..Len(ag) : ag[i].busy = FALSE
    THEN LET i == CHOOSE j \in 1..Len(ag) :
                    ag[j].busy = FALSE /\ \A k \in 1..(j-1) : ag[k].busy # FALSE
         IN ag[i].id
    ELSE None

\* An emitted notification.
Msg(to, ev, arg) == [to |-> to, ev |-> ev, arg |-> arg]

\* The record of a handled event.
Ev(ev, from, arg) == [ev |-> ev, from |-> from, arg |-> arg]

----------------------------------------------------------------------------
Init ==
  /\ conn = [c \in Ids |-> "new"]
  /\ agents = <<>>
  /\ waitingQueue = <<>>
  /\ pairings = [k \in Keys |-> None]
  /\ out = <<>>
  /\ last = Ev("init", None, None)
  /\ handled = 0
  /\ everPaired = {}
  /\ prevQueue = <<>>

\* One more client event is taken off the wire by a live connection.
Receive(c) ==
  /\ conn[c] = "live"
  /\ handled < MaxEvents
  /\ handled' = handled + 1

\* The history variables are brought up to date at the end of a handler.
RecordHistory ==
  /\ everPaired' = everPaired \cup {k \in Ids : pairings'[k] # None}
  /\ prevQueue' = waitingQueue

\* io.on('connection'): a new socket with a fresh id; ids are handed out in
\* increasing order.
Connect(c) ==
  /\ conn[c] = "new"
  /\ \A d \in Ids : d < c => conn[d] # "new"
  /\ conn' = [conn EXCEPT ![c] = "live"]
  /\ out' = <<>>
  /\ last' = Ev("connection", c, None)
  /\ prevQueue' = waitingQueue
  /\ UNCHANGED <<agents, waitingQueue, pairings, handled, everPaired>>

\* socket.on('agent-register')
AgentRegister(c) ==
  /\ Receive(c)
  /\ agents' = RegisterAgent(agents, c)
  /\ out' = <<Msg(c, "agent-registered", Len(waitingQueue))>>
  /\ last' = Ev("agent-register", c, None)
  /\ UNCHANGED <<conn, waitingQueue, pairings>>
  /\ RecordHistory

\* socket.on('supplier-call')
SupplierCall(c) ==
  /\ Receive(c)
  /\ last' = Ev("supplier-call", c, None)
  /\ UNCHANGED conn
  /\ IF Includes(waitingQueue, c)
       THEN /\ out' = <<Msg(c, "queue-status", IndexOf(waitingQueue, c) + 1)>>
            /\ UNCHANGED <<agents, waitingQueue, pairings>>
       ELSE LET freeAgentId == findFreeAgent(agents) IN
            IF Truthy(freeAgentId)
              THEN /\ agents' = SetBusy(agents, freeAgentId, TRUE)
                   /\ pairings' = Put(Put(pairings, c, freeAgentId), freeAgentId, c)
                   /\ out' = <<Msg(freeAgentId, "incoming-call", c),
                               Msg(c, "call-requested", freeAgentId)>>
                   /\ UNCHANGED waitingQueue
              ELSE /\ waitingQueue' = Push(waitingQueue, c)
                   /\ out' = <<Msg(c, "queue-status", Len(waitingQueue) + 1)>>
                   /\ UNCHANGED <<agents, pairings>>
  /\ RecordHistory

\* A seeded fault of AgentAccept: the test that the sender is a registered
\* agent is missing.
AgentAcceptUnguarded(c, supplierId) ==
  /\ Receive(c)
  /\ last' = Ev("agent-accept", c, supplierId)
  /\ UNCHANGED <<conn, waitingQueue, agents>>
  /\ pairings' = Put(Put(pairings, supplierId, c), c, supplierId)
  /\ out' = <<Msg(supplierId, "call-accepted", c),
              Msg(c, "call-started", supplierId)>>
  /\ RecordHistory

\* socket.on('agent-accept')
AgentAccept(c, supplierId) ==
  /\ Receive(c)
  /\ last' = Ev("agent-accept", c, supplierId)
  /\ UNCHANGED <<conn, waitingQueue>>
  /\ IF ~IsAgent(agents, c)
       THEN /\ out' = <<>>
            /\ UNCHANGED <<agents, pairings>>
       ELSE /\ pairings' = Put(Put(pairings, supplierId, c), c, supplierId)
            /\ agents' = SetBusy(agents, c, TRUE)
            /\ out' = <<Msg(supplierId, "call-accepted", c),
                        Msg(c, "call-started", supplierId)>>
  /\ RecordHistory

\* socket.on('agent-reject')
AgentReject(c, supplierId) ==
  /\ Receive(c)
  /\ last' = Ev("agent-reject", c, supplierId)
  /\ UNCHANGED conn
  /\ LET ag1 == ClearBusyIfAgent(agents, c)
         freeAgent == findFreeAgent(ag1)
     IN IF Truthy(freeAgent)
          THEN /\ agents' = SetBusy(ag1, freeAgent, TRUE)
               /\ pairings' = Put(Put(pairings, supplierId, freeAgent), freeAgent, supplierId)
               /\ out' = <<Msg(freeAgent, "incoming-call", supplierId),
                           Msg(supplierId, "call-requested", freeAgent)>>
               /\ UNCHANGED waitingQueue
          ELSE LET q1 == IF ~Includes(waitingQueue, supplierId)
                           THEN Push(waitingQueue, supplierId)
                           ELSE waitingQueue
               IN /\ waitingQueue' = q1
                  /\ agents' = ag1
                  /\ out' = <<Msg(supplierId, "queue-status", IndexOf(q1, supplierId) + 1)>>
                  /\ UNCHANGED pairings
  /\ RecordHistory

\* A seeded fault of QueueShift: the queue is popped at its tail.
QueueShiftLast(q) == [next |-> q[Len(q)], rest |-> SubSeq(q, 1, Len(q) - 1)]

\* waitingQueue.shift() on a non-empty queue: the element returned and the
\* queue left behind.
QueueShift(q) == [next |-> Head(q), rest |-> Tail(q)]

\* The state of end-call after its teardown half (the busy flags cleared and
\* the two pairing entries deleted), before the promotion.
EndCallTeardown(ag, p, c, other) ==
  LET ag1 == ClearBusyIfAgent(ag, c)
      ag2 == ClearBusyIfAgent(ag1, other)
      p1  == IF Truthy(Get(p, c)) THEN Delete(p, c) ELSE p
      p2  == IF Truthy(Get(p1, other)) THEN Delete(p1, other) ELSE p1
  IN [agents |-> ag2, pairings |-> p2]

\* socket.on('end-call')
EndCall(c, partnerId) ==
  /\ Receive(c)
  /\ last' = Ev("end-call", c, partnerId)
  /\ UNCHANGED conn
  /\ LET other == partnerId
         t == EndCallTeardown(agents, pairings, c, other)
         ended == <<Msg(other, "call-ended", c)>>
         freeAgent == findFreeAgent(t.agents)
     IN IF Truthy(freeAgent) /\ Len(waitingQueue) > 0
          THEN LET nextSupplier == QueueShift(waitingQueue).next IN
               /\ waitingQueue' = QueueShift(waitingQueue).rest
               /\ IF Truthy(nextSupplier)
                    THEN /\ agents' = SetBusy(t.agents, freeAgent, TRUE)
                         /\ pairings' = Put(Put(t.pairings, freeAgent, nextSupplier),
                                            nextSupplier, freeAgent)
                         /\ out' = ended \o <<Msg(freeAgent, "incoming-call", nextSupplier),
                                              Msg(nextSupplier, "call-requested", freeAgent)>>
                    ELSE /\ agents' = t.agents
                         /\ pairings' = t.pairings
                         /\ out' = ended
          ELSE /\ agents' = t.agents
               /\ pairings' = t.pairings
               /\ out' = ended
               /\ UNCHANGED waitingQueue
  /\ RecordHistory

\* socket.on('disconnect'), agent branch
DisconnectAgent(c) ==
  /\ Receive(c)
  /\ IsAgent(agents, c)
  /\ conn' = [conn EXCEPT ![c] = "gone"]
  /\ last' = Ev("disconnect", c, None)
  /\ LET supplier == Get(pairings, c) IN
     IF Truthy(supplier)
       THEN LET p1 == Delete(pairings, supplier)
                gone == <<Msg(supplier, "agent-disconnected", None)>>
                freeAgent == findFreeAgent(agents)
            IN IF Truthy(freeAgent)
                 THEN /\ agents' = DeleteAgent(SetBusy(agents, freeAgent, TRUE), c)
                      /\ pairings' = Delete(Put(Put(p1, freeAgent, supplier),
                                                supplier, freeAgent), c)
                      /\ out' = gone \o <<Msg(freeAgent, "incoming-call", supplier),
                                          Msg(supplier, "call-requested", freeAgent)>>
                      /\ UNCHANGED waitingQueue
                 ELSE LET q1 == Push(waitingQueue, supplier) IN
                      /\ waitingQueue' = q1
                      /\ agents' = DeleteAgent(agents, c)
                      /\ pairings' = Delete(p1, c)
                      /\ out' = gone \o <<Msg(supplier, "queue-status",
                                              IndexOf(q1, supplier) + 1)>>
       ELSE /\ agents' = DeleteAgent(agents, c)
            /\ pairings' = Delete(pairings, c)
            /\ out' = <<>>
            /\ UNCHANGED waitingQueue
  /\ RecordHistory

\* socket.on('disconnect'), branch of a connection that is not an agent
DisconnectOther(c) ==
  /\ Receive(c)
  /\ ~IsAgent(agents, c)
  /\ conn' = [conn EXCEPT ![c] = "gone"]
  /\ last' = Ev("disconnect", c, None)
  /\ LET qIndex == IndexOf(waitingQueue, c)
         pairedAgent == Get(pairings, c)
     IN /\ waitingQueue' = IF qIndex >= 0 THEN Splice1(waitingQueue, qIndex)
                           ELSE waitingQueue
        /\ IF Truthy(pairedAgent)
             THEN /\ out' = <<Msg(pairedAgent, "supplier-disconnected", c)>>
                  /\ agents' = ClearBusyIfAgent(agents, pairedAgent)
                  /\ pairings' = Delete(Delete(pairings, pairedAgent), c)
             ELSE /\ out' = <<>>
                  /\ agents' = agents
                  /\ pairings' = Delete(pairings, c)
  /\ RecordHistory

\* Identifiers a client can name in a payload: the id of any connection that
\* has existed, or a falsy value.
Payloads == {k \in Ids : conn[k] # "new"} \cup {Empty}

Next ==
  \/ \E c \in Ids : Connect(c)
  \/ \E c \in Ids : AgentRegister(c)
  \/ \E c \in Ids : SupplierCall(c)
  \/ \E c \in Ids : \E s \in Payloads : AgentAccept(c, s)
  \/ \E c \in Ids : \E s \in Payloads : AgentReject(c, s)
  \/ \E c \in Ids : \E p \in Payloads : EndCall(c, p)
  \/ \E c \in Ids : DisconnectAgent(c)
  \/ \E c \in Ids : DisconnectOther(c)

Spec == Init /\ [][Next]_vars

\* The engine a little later: connections 1 and 2 have each sent
\* supplier-call while no agent was registered, so both are waiting.  The
\* state is the one Spec reaches by these two events; handled counts the
\* events from here on.
InitTwoWaiting ==
  /\ conn = [c \in Ids |-> IF c <= 2 THEN "live" ELSE "new"]
  /\ agents = <<>>
  /\ waitingQueue = <<1, 2>>
  /\ pairings = [k \in Keys |-> None]
  /\ out = <<Msg(2, "queue-status", 2)>>
  /\ last = Ev("supplier-call", 2, None)
  /\ handled = 0
  /\ everPaired = {}
  /\ prevQueue = <<1>>

SpecTwoWaiting == InitTwoWaiting /\ [][Next]_vars

TypeOK ==
  /\ conn \in [Ids -> {"new", "live", "gone"}]
  /\ \A i \in 1..Len(agents) : agents[i].id \in Ids /\ agents[i].busy \in BOOLEAN
  /\ \A i \in 1..Len(waitingQueue) : waitingQueue[i] \in Keys
  /\ pairings \in [Keys -> Keys \cup {None}]
  /\ everPaired \subseteq Ids
  /\ \A i \in 1..Len(prevQueue) : prevQueue[i] \in Keys
----------------------------------------------------------------------------
\* State predicates shared by the properties below.

\* k is a key of the pairing table.
IsPaired(k) == pairings[k] # None

\* The registered agent ids.
AgentIds == {agents[i].id : i \in 1..Len(agents)}

\* The last step handled the client event ev.
Handled(ev) == last.ev = ev

\* C1: pairing symmetry at rest: whenever pairings[k] = v for a connection
\* identifier k, also pairings[v] = k.
PairingSymmetry ==
  \A k \in Ids : IsPaired(k) => Get(pairings, pairings[k]) = k

\* C2: queue/pairing exclusivity at rest: no connection identifier is both
\* a member of waitingQueue and a key of pairings.
QueuePairingExclusive ==
  \A k \in Ids : ~(Includes(waitingQueue, k) /\ IsPaired(k))

\* C3: busy flag consistency at rest: a registered agent is busy exactly
\* when it is a key of pairings.
BusyIffPaired ==
  \A a \in AgentIds : BusyOf(agents, a) <=> IsPaired(a)

\* C4: an agent serves at most one supplier: at most one connection
\* identifier is mapped to any registered agent.
AtMostOneSupplierPerAgent ==
  \A a \in AgentIds : Cardinality({s \in Ids : pairings[s] = a}) <= 1

\* C5: the waiting queue is duplicate-free.
QueueDuplicateFree ==
  \A i, j \in 1..Len(waitingQueue) :
    waitingQueue[i] = waitingQueue[j] => i = j
----------------------------------------------------------------------------
\* Properties of single events.  A step that handles the client event ev
\* leaves its record in last'.

\* The step handles event ev sent by connection c with payload identifier x.
Step(ev, c, x) == handled' # handled /\ last' = Ev(ev, c, x)

\* Some registered agent other than a is free (in the state before the step).
OtherAgentFree(a) == \E b \in AgentIds \ {a} : ~BusyOf(agents, b)

\* The notifications of the step contain m.
Emits(m) == \E i \in 1..Len(out') : out'[i] = m

\* The notifications of the step contain m1 and, later, m2.
EmitsInOrder(m1, m2) ==
  \E i, j \in 1..Len(out') : i < j /\ out'[i] = m1 /\ out'[j] = m2

\* C6: rejection never hands the supplier back to the rejecting agent: when
\* a registered agent A sends agent-reject(S) for another connection S, no
\* offer of the step goes to A, and if no other agent is free then S is
\* unpaired, queued and told its 1-based queue position.
RejectNeverBackToRejecter ==
  [][\A A \in Ids : \A S \in Ids \ {A} :
       (Step("agent-reject", A, S) /\ IsAgent(agents, A)) =>
         /\ \A i \in 1..Len(out') :
              /\ out'[i].ev = "incoming-call" => out'[i].to # A
              /\ out'[i].ev = "call-requested" => out'[i].arg # A
         /\ ~OtherAgentFree(A) =>
              /\ pairings'[S] = None
              /\ Includes(waitingQueue', S)
              /\ Emits(Msg(S, "queue-status", IndexOf(waitingQueue', S) + 1))
    ]_vars

\* C7: when a registered agent A with pairings[A] = S, S another connection,
\* disconnects and no other agent is free, S is told agent-disconnected and
\* then queue-status, S is appended at the tail of the queue and the reported
\* position is that index, S is no key of pairings, and A's record and
\* pairing entry are gone.
AgentDisconnectRequeuesPartner ==
  [][\A A \in Ids :
       (Step("disconnect", A, None) /\ IsAgent(agents, A)
          /\ pairings[A] \in Ids \ {A} /\ ~OtherAgentFree(A)) =>
         LET S == pairings[A] IN
         /\ EmitsInOrder(Msg(S, "agent-disconnected", None),
                         Msg(S, "queue-status", Len(waitingQueue) + 1))
         /\ waitingQueue' = Append(waitingQueue, S)
         /\ pairings'[S] = None
         /\ ~IsAgent(agents', A)
         /\ pairings'[A] = None
    ]_vars

\* Agent a is free once end-call(p) from c has cleared the busy flags.
FreeAfterTeardown(a, c, p) ==
  IsAgent(agents, a) /\ (~BusyOf(agents, a) \/ a = c \/ a = p)

\* The promotion of the queue front by an end-call(p) from c: the front
\* leaves the queue, the rest keeps its order, the front is paired both ways
\* with an agent that was free after the teardown, that agent is busy and is
\* sent incoming-call, the front is sent call-requested, and nothing else is
\* offered or paired.
PromotesFront(c, p) ==
  LET front == Head(waitingQueue) IN
  /\ waitingQueue' = Tail(waitingQueue)
  /\ \E a \in Ids :
       /\ FreeAfterTeardown(a, c, p)
       /\ pairings'[a] = front
       /\ pairings'[front] = a
       /\ BusyOf(agents', a)
       /\ EmitsInOrder(Msg(a, "incoming-call", front),
                       Msg(front, "call-requested", a))
       /\ \A k \in Keys \ {c, p, a, front} : pairings'[k] = pairings[k]
       /\ \A b \in AgentIds \ {a} :
            BusyOf(agents', b) = (BusyOf(agents, b) /\ b # c /\ b # p)
  /\ Cardinality({i \in 1..Len(out') : out'[i].ev = "incoming-call"}) = 1
  /\ Cardinality({i \in 1..Len(out') : out'[i].ev = "call-requested"}) = 1

\* What end-call(p) from c does with a falsy queue front: the entry leaves
\* the queue and nothing is offered or paired.
DropsFront(c, p) ==
  /\ waitingQueue' = Tail(waitingQueue)
  /\ \A i \in 1..Len(out') : out'[i].ev \notin {"incoming-call", "call-requested"}
  /\ \A k \in Keys \ {c, p} : pairings'[k] = pairings[k]
  /\ \A b \in AgentIds : BusyOf(agents', b) = (BusyOf(agents, b) /\ b # c /\ b # p)

\* The scenario of C8: agent c ends its call while exactly one supplier is
\* queued and no agent but c is free after the teardown: c is offered that
\* supplier and the queue becomes empty.
SoleAgentIsOffered(c, p) ==
  (/\ Len(waitingQueue) = 1
   /\ FreeAfterTeardown(c, c, p)
   /\ \A a \in Ids \ {c} : ~FreeAfterTeardown(a, c, p)) =>
     /\ Emits(Msg(c, "incoming-call", Head(waitingQueue)))
     /\ waitingQueue' = <<>>

QueuedEnderLeavesQueue ==
  [][\A S \in Ids : \A p \in Keys :
       (Step("end-call", S, p) /\ Includes(waitingQueue, S)) =>
         /\ ~Includes(waitingQueue', S)
         /\ \A i \in 1..Len(agents') :
              pairings'[S] # agents'[i].id /\ pairings'[agents'[i].id] # S
    ]_vars

\* C10: an end-call(p) from c where p is not c's current partner is ignored:
\* agents, waitingQueue and pairings are unchanged and no notification goes
\* to any live connection.
EndCallWrongPartnerIgnored ==
  [][\A c \in Ids : \A p \in Keys :
       (Step("end-call", c, p) /\ pairings[c] # p) =>
         /\ UNCHANGED <<agents, waitingQueue, pairings>>
         /\ \A i \in 1..Len(out') :
              ~(out'[i].to \in Ids /\ conn[out'[i].to] = "live")
    ]_vars
\* Some registered agent is free (in the state before the step).
SomeAgentFree == \E a \in AgentIds : ~BusyOf(agents, a)

\* C11: agent-accept from a connection without an agent record is a no-op:
\* agents, waitingQueue and pairings are unchanged and nothing is emitted.
NonAgentAcceptIsNoOp ==
  [][\A c \in Ids : \A S \in Keys :
       (Step("agent-accept", c, S) /\ c \notin AgentIds) =>
         /\ UNCHANGED <<agents, waitingQueue, pairings>>
         /\ out' = <<>>
    ]_vars

\* Witness of C11: a connection that is no agent has just sent agent-accept
\* naming another connection, while an agent is registered.
NonAgentAcceptWitness ==
  /\ Handled("agent-accept")
  /\ last.from \notin AgentIds
  /\ last.arg \in Ids \ {last.from}
  /\ AgentIds # {}

\* C12: supplier-call from a queued supplier S changes neither agents nor
\* waitingQueue nor pairings, S occurs exactly once in the queue, and the
\* only notification is queue-status to S with its unchanged position.
QueuedSupplierCallIdempotent ==
  [][\A S \in Ids :
       (Step("supplier-call", S, None) /\ Includes(waitingQueue, S)) =>
         /\ UNCHANGED <<agents, waitingQueue, pairings>>
         /\ Cardinality({i \in 1..Len(waitingQueue') : waitingQueue'[i] = S}) = 1
         /\ out' = <<Msg(S, "queue-status", IndexOf(waitingQueue, S) + 1)>>
    ]_vars

\* C13: supplier-call from S, not queued, while some agent is free: S is
\* paired both ways with exactly one agent that was free before and is busy
\* now, the queue is unchanged, that agent is sent incoming-call{S} and S is
\* sent call-requested naming it.
SupplierOfferedFreeAgent ==
  [][\A S \in Ids :
       (Step("supplier-call", S, None) /\ ~Includes(waitingQueue, S)
          /\ SomeAgentFree) =>
         /\ Cardinality({a \in AgentIds :
                           /\ ~BusyOf(agents, a)
                           /\ pairings'[S] = a /\ pairings'[a] = S
                           /\ BusyOf(agents', a)}) = 1
         /\ UNCHANGED waitingQueue
         /\ out' = <<Msg(pairings'[S], "incoming-call", S),
                     Msg(S, "call-requested", pairings'[S])>>
    ]_vars

\* Witness of C13: a supplier-call has just been answered with an offer
\* while two agents are registered.
SupplierOfferedWitness ==
  /\ Handled("supplier-call")
  /\ Len(agents) >= 2
  /\ last.from \notin AgentIds
  /\ \E i \in 1..Len(out) : out[i] = Msg(last.from, "call-requested", pairings[last.from])

\* C14: supplier-call from S, not queued, while no agent is free: S is
\* appended at the tail, agents and pairings are unchanged, and the only
\* notification is queue-status to S with the new queue length.
SupplierQueuedWhenNoneFree ==
  [][\A S \in Ids :
       (Step("supplier-call", S, None) /\ ~Includes(waitingQueue, S)
          /\ ~SomeAgentFree) =>
         /\ waitingQueue' = Append(waitingQueue, S)
         /\ UNCHANGED <<agents, pairings>>
         /\ out' = <<Msg(S, "queue-status", Len(waitingQueue) + 1)>>
    ]_vars

\* Witness of C14: a supplier-call has just queued its sender behind
\* another waiting supplier.
SupplierQueuedWitness ==
  /\ Handled("supplier-call")
  /\ Len(waitingQueue) >= 2
  /\ waitingQueue[Len(waitingQueue)] = last.from
  /\ waitingQueue[1] # last.from
  /\ out = <<Msg(last.from, "queue-status", Len(waitingQueue))>>
\* The queue q without the entries equal to x.
Without(q, x) == SelectSeq(q, LAMBDA y : y # x)

\* C15: disconnect of a queued supplier S that is no agent and was never a
\* key of pairings: S is gone from the queue, the queue is shorter by exactly
\* one, the others keep their order, agents and pairings are unchanged and
\* no notification goes to an agent.
QueuedSupplierDisconnect ==
  [][\A S \in Ids :
       (Step("disconnect", S, None) /\ S \notin AgentIds
          /\ Includes(waitingQueue, S) /\ S \notin everPaired) =>
         /\ ~IsPaired(S)
         /\ ~Includes(waitingQueue', S)
         /\ Len(waitingQueue') = Len(waitingQueue) - 1
         /\ waitingQueue' = Without(waitingQueue, S)
         /\ UNCHANGED <<agents, pairings>>
         /\ \A i \in 1..Len(out') : out'[i].to \notin AgentIds
    ]_vars

\* Witness of C15: a never-paired supplier has just disconnected out of the
\* front of a queue in which others are still waiting, an agent being
\* registered.
QueuedSupplierDisconnectWitness ==
  /\ Handled("disconnect")
  /\ last.from \notin everPaired
  /\ Len(prevQueue) >= 2
  /\ prevQueue[1] = last.from
  /\ waitingQueue = Tail(prevQueue)
  /\ AgentIds # {}

\* C16: disconnect of a connection S that is no agent, with pairings[S] = P:
\* P is sent supplier-disconnected{S}, P is not busy afterwards if it is an
\* agent, neither S nor P is a key of pairings, nothing is offered, and the
\* queue changes only by removal of S.
PairedSupplierDisconnect ==
  [][\A S \in Ids :
       (Step("disconnect", S, None) /\ S \notin AgentIds /\ IsPaired(S)) =>
         LET P == pairings[S] IN
         /\ Emits(Msg(P, "supplier-disconnected", S))
         /\ P \in AgentIds => ~BusyOf(agents', P)
         /\ pairings'[S] = None
         /\ pairings'[P] = None
         /\ \A i \in 1..Len(out') :
              out'[i].ev \notin {"incoming-call", "call-requested"}
         /\ Without(waitingQueue', S) = Without(waitingQueue, S)
         /\ Len(waitingQueue') <= Len(waitingQueue)
    ]_vars

\* Witness of C16: a paired supplier has just disconnected, its agent is
\* free again, and a supplier is still waiting.
PairedSupplierDisconnectWitness ==
  /\ Handled("disconnect")
  /\ \E i \in 1..Len(out) :
       /\ out[i] = Msg(out[i].to, "supplier-disconnected", last.from)
       /\ out[i].to \in AgentIds
       /\ ~BusyOf(agents, out[i].to)
  /\ Len(waitingQueue) >= 1

\* C17: agent-register from c gives c a record with busy = false, emits
\* agent-registered to c with the current queue length, and leaves
\* waitingQueue, pairings and the records of the other agents unchanged.
RegisterEffectAndFrame ==
  [][\A c \in Ids :
       Step("agent-register", c, None) =>
         /\ c \in {agents'[i].id : i \in 1..Len(agents')}
         /\ ~BusyOf(agents', c)
         /\ out' = <<Msg(c, "agent-registered", Len(waitingQueue))>>
         /\ UNCHANGED <<waitingQueue, pairings>>
         /\ {agents'[i].id : i \in 1..Len(agents')} = AgentIds \cup {c}
         /\ \A b \in AgentIds \ {c} : BusyOf(agents', b) = BusyOf(agents, b)
    ]_vars

\* Witness of C17: an agent has just registered again while it is a key of
\* pairings, another agent is busy and a supplier is waiting.
RegisterWitness ==
  /\ Handled("agent-register")
  /\ IsPaired(last.from)
  /\ out = <<Msg(last.from, "agent-registered", Len(waitingQueue))>>
  /\ Len(waitingQueue) >= 1
\* C18: once the disconnect of connection x has been handled, x is no
\* agent, no member of the queue, neither key nor value of pairings, and no
\* supplier has been told call-requested for x.
NoDanglingAfterDisconnect ==
  [][\A x \in Ids :
       Step("disconnect", x, None) =>
         /\ x \notin {agents'[i].id : i \in 1..Len(agents')}
         /\ ~Includes(waitingQueue', x)
         /\ pairings'[x] = None
         /\ \A k \in Keys : pairings'[k] # x
         /\ \A i \in 1..Len(out') :
              ~(out'[i].ev = "call-requested" /\ out'[i].arg = x)
    ]_vars

\* C19 as stated: work conservation at rest: if the queue is non-empty then
\* no registered agent is free.
WorkConservation ==
  Len(waitingQueue) > 0 => \A i \in 1..Len(agents) : agents[i].busy

\* C19 as amended: an event that makes the queue longer leaves no
\* registered agent free.
EnqueueOnlyWhenNoneFree ==
  [][Len(waitingQueue') > Len(waitingQueue) =>
       \A i \in 1..Len(agents') : agents'[i].busy
    ]_vars

\* Witness of C19: an event has just made the queue longer while two agents
\* are registered.
EnqueueWitness ==
  /\ Len(waitingQueue) = Len(prevQueue) + 1
  /\ last.ev \in {"supplier-call", "agent-reject", "disconnect"}
  /\ Len(agents) >= 2

\* C20: queue positions never get worse: an identifier that is in the queue
\* before and after an event has its first occurrence no further back
\* afterwards, and a queue that grows grows by one entry at its tail.
QueuePositionsNeverWorse ==
  [][/\ \A S \in Keys :
          (Includes(waitingQueue, S) /\ Includes(waitingQueue', S)) =>
            IndexOf(waitingQueue', S) <= IndexOf(waitingQueue, S)
     /\ Len(waitingQueue') > Len(waitingQueue) =>
          \E x \in Keys : waitingQueue' = Append(waitingQueue, x)
    ]_vars

\* The state InitTwoWaiting starts from, as a state of Spec.
TwoWaitingReached ==
  /\ conn = [c \in Ids |-> IF c <= 2 THEN "live" ELSE "new"]
  /\ agents = <<>>
  /\ waitingQueue = <<1, 2>>
  /\ pairings = [k \in Keys |-> None]
  /\ out = <<Msg(2, "queue-status", 2)>>
  /\ last = Ev("supplier-call", 2, None)
  /\ everPaired = {}
  /\ prevQueue = <<1>>
====
